---- MODULE Spec2Model ----
(***************************************************************************)
(* Model of the log browser of prose-log-parser (src/tui): the three       *)
(* StatefulLists of AppInner, the detail view, the focus area, the reload  *)
(* reconciliation of App::reload_messages and the select loop of run_app.  *)
(***************************************************************************)
EXTENDS Integers, Sequences, FiniteSets, TLC

(* ------------------------------ bounds --------------------------------- *)

\* longest log file, in lines
MaxLen == 2
\* the detail scroll offset (a u16 in the source) is followed up to here
MaxScroll == 1
\* tallest list area the terminal offers to a list widget, in rows
MaxHeight == 1

(* ------------------------------ options -------------------------------- *)

Some(v) == [some |-> TRUE, val |-> v]
None == [some |-> FALSE, val |-> 0]

Min(a, b) == IF a < b THEN a ELSE b

\* usize::saturating_sub(1)
saturating_sub(n) == IF n = 0 THEN 0 ELSE n - 1

(* --------------------------- log records ------------------------------- *)

\* Span names are ordered strings in the source; here they are the numbers
\* 1 and 2 with the same order.  The "[All Messages]" entry is 0.
AllSpans == 0

\* The lines a log file is made of.  "garbage" is a line that is not a JSON
\* log record.
Lines == {"plain", "stanza_in", "stanza_out", "garbage"}

Err == [ok |-> FALSE, val |-> 0]
Ok(v) == [ok |-> TRUE, val |-> v]

\* LogMessage::from_str: serde_json::from_str of one line
from_str(line) ==
    CASE line = "plain" ->
           Ok([message |-> "hello", direction |-> "None", spans |-> None])
      [] line = "stanza_in" ->
           Ok([message |-> "<a/>", direction |-> "In", spans |-> Some(<<2>>)])
      [] line = "stanza_out" ->
           Ok([message |-> "oops", direction |-> "Out", spans |-> Some(<<1, 2>>)])
      [] OTHER -> Err

\* to_writer_pretty: the body re-serialised by the XML reader and writer;
\* a body that is not a well-formed document is an error
to_writer_pretty(body) ==
    IF body = "<a/>" THEN Ok("<a />") ELSE Err

\* LogMessage::pretty_printed_xml
pretty_printed_xml(m) ==
    IF m.direction = "None" THEN Ok(m.message) ELSE to_writer_pretty(m.message)

\* LogMessage::highlighted_stanza_xml_text: white lines of the body for a
\* record without direction, highlighted lines of the pretty-printed body
\* otherwise
highlighted_stanza_xml_text(m) ==
    IF m.direction = "None"
    THEN Ok([style |-> "white", text |-> m.message])
    ELSE LET xml == pretty_printed_xml(m)
         IN  IF xml.ok THEN Ok([style |-> "xml", text |-> xml.val]) ELSE Err

\* From<Vec<Line>> for SelectedLogMessage
SelectedLogMessage(lines) == [message |-> lines, vertical_position |-> 0]

NoDetail == [some |-> FALSE, val |-> SelectedLogMessage([style |-> "", text |-> ""])]

(* --------------------------- StatefulList ------------------------------ *)

\* ListState::select as it would be if every call reset the offset
ListState_select_resets_offset(list, index) ==
    [list EXCEPT !.selected = index, !.offset = 0]

\* ListState::select: dropping the selection also resets the offset
ListState_select(list, index) ==
    [list EXCEPT !.selected = index,
                 !.offset = IF index.some THEN list.offset ELSE 0]

\* StatefulList::with_items as it would be without the initial selection
with_items_unselected(items) ==
    [items |-> items, selected |-> None, offset |-> 0]

with_items(items) ==
    [items |-> items,
     selected |-> IF items # <<>> THEN Some(0) ELSE None,
     offset |-> 0]

\* StatefulList::next as it would be if it stopped at the last item
StatefulList_next_no_wrap(list) ==
    IF list.items = <<>> THEN list
    ELSE LET idx == IF list.selected.some
                    THEN Min(list.selected.val + 1, Len(list.items) - 1)
                    ELSE 0
         IN  ListState_select(list, Some(idx))

StatefulList_next(list) ==
    IF list.items = <<>> THEN list
    ELSE LET idx == IF list.selected.some
                    THEN (IF list.selected.val < Len(list.items) - 1
                          THEN list.selected.val + 1 ELSE 0)
                    ELSE 0
         IN  ListState_select(list, Some(idx))

\* StatefulList::prev as it would be if it stopped at the first item
StatefulList_prev_no_wrap(list) ==
    IF list.items = <<>> THEN list
    ELSE LET idx == IF list.selected.some
                    THEN saturating_sub(list.selected.val)
                    ELSE 0
         IN  ListState_select(list, Some(idx))

StatefulList_prev(list) ==
    IF list.items = <<>> THEN list
    ELSE LET idx == IF list.selected.some
                    THEN (IF list.selected.val > 0
                          THEN list.selected.val - 1 ELSE Len(list.items) - 1)
                    ELSE 0
         IN  ListState_select(list, Some(idx))

\* selected_item as it would be if an index beyond the list were read at
\* the last item instead of giving None
selected_item_unchecked(list) ==
    IF list.items = <<>> THEN None
    ELSE IF ~list.selected.some THEN None
    ELSE Some(list.items[Min(list.selected.val, Len(list.items) - 1) + 1])

\* the item at the selection; indices are 0-based in the source
selected_item(list) ==
    IF list.items = <<>> THEN None
    ELSE IF ~list.selected.some THEN None
    ELSE IF list.selected.val > Len(list.items) - 1 THEN None
    ELSE Some(list.items[list.selected.val + 1])

\* select_last as it would be if it selected the first item
select_last_first(list) ==
    ListState_select(list, Some(0))

select_last(list) ==
    ListState_select(list, Some(saturating_sub(Len(list.items))))

(* ------------------------------ files ---------------------------------- *)

RECURSIVE SeqsUpTo(_, _)
SeqsUpTo(S, n) ==
    IF n = 0 THEN {<<>>}
    ELSE LET shorter == SeqsUpTo(S, n - 1)
         IN  shorter \cup {Append(q, x) : q \in {r \in shorter : Len(r) = n - 1}, x \in S}

\* What File::open and the line reader find at the watched path when a load
\* runs: an unreadable file, or up to MaxLen lines.
Files ==
    {[readable |-> FALSE, lines |-> <<>>]}
        \cup {[readable |-> TRUE, lines |-> l] : l \in SeqsUpTo(Lines, MaxLen)}

RECURSIVE SortedSeq(_)
\* Vec::sort of the collected span names
SortedSeq(S) ==
    IF S = {} THEN <<>>
    ELSE LET least == CHOOSE x \in S : \A y \in S : x <= y
         IN  <<least>> \o SortedSeq(S \ {least})

\* the span names of all messages, flattened into a HashSet
span_names(msgs) ==
    UNION {{msgs[i].spans.val[j] : j \in 1..Len(msgs[i].spans.val)} :
             i \in {k \in 1..Len(msgs) : msgs[k].spans.some}}

\* AppInner::new: Err when the file cannot be opened or any line fails to
\* parse, otherwise the freshly built state
AppInner_new(file) ==
    IF ~file.readable \/ (\E i \in 1..Len(file.lines) : ~from_str(file.lines[i]).ok)
    THEN Err
    ELSE LET msgs == [i \in 1..Len(file.lines) |-> from_str(file.lines[i]).val]
             all == with_items(msgs)
         IN  Ok([all_messages |-> all,
                 messages |-> all,
                 spans |-> with_items(<<AllSpans>> \o SortedSeq(span_names(msgs))),
                 formatted_message |-> NoDetail,
                 selected_area |-> "Messages"])

\* AppInner::update_selected_message: the new value of formatted_message
update_selected_message(msgs) ==
    LET m == selected_item(msgs)
    IN  IF ~m.some THEN NoDetail
        ELSE LET text == highlighted_stanza_xml_text(m.val)
             IN  IF text.ok
                 THEN [some |-> TRUE, val |-> SelectedLogMessage(text.val)]
                 ELSE NoDetail

\* has_span as it would be if only the first span of a message were compared
has_span_first_only(m, span_name) ==
    m.spans.some /\ Len(m.spans.val) > 0 /\ m.spans.val[1] = span_name

\* the closure of the filter in update_selected_span: some span of the
\* message has this name
has_span(m, span_name) ==
    m.spans.some /\ \E j \in 1..Len(m.spans.val) : m.spans.val[j] = span_name

\* update_selected_span as it would be if a missing span showed every record
update_selected_span_all_when_missing(span_list, all) ==
    IF span_list.selected = Some(0) THEN all
    ELSE LET span_name == selected_item(span_list)
         IN  IF ~span_name.some THEN all
             ELSE with_items(SelectSeq(all.items, LAMBDA m : has_span(m, span_name.val)))

\* AppInner::update_selected_span: the new value of messages
update_selected_span(span_list, all) ==
    IF span_list.selected = Some(0) THEN all
    ELSE LET span_name == selected_item(span_list)
         IN  IF ~span_name.some THEN with_items(<<>>)
             ELSE with_items(SelectSeq(all.items, LAMBDA m : has_span(m, span_name.val)))

\* SelectedLogMessage::prev as it would be with a plain subtraction
SelectedLogMessage_prev_unsaturated(d) ==
    [d EXCEPT !.vertical_position = d.vertical_position - 1]

\* SelectedLogMessage::prev
SelectedLogMessage_prev(d) ==
    [d EXCEPT !.vertical_position = saturating_sub(d.vertical_position)]

\* SelectedLogMessage::next
SelectedLogMessage_next(d) ==
    [d EXCEPT !.vertical_position = d.vertical_position + 1]

\* List::render on a ListState: the offset moves just far enough to show the
\* selection in a list area of `height` rows (every item is one row high)
render_offset(list, height) ==
    IF height < 1 \/ list.items = <<>> THEN list.offset
    ELSE LET n == Len(list.items)
             off == Min(list.offset, n - 1)
             sel == Min(IF list.selected.some THEN list.selected.val ELSE 0, n - 1)
         IN  IF sel >= off + height THEN sel + 1 - height
             ELSE IF sel < off THEN sel
             ELSE off

(* --------------------------- App operations ---------------------------- *)

\* reload_messages as it would be if the new state were assigned field by
\* field and the record list were left out
reload_messages_keeps_records(inner, file) ==
    LET loaded == AppInner_new(file)
    IN  IF ~loaded.ok THEN Err
        ELSE Ok([loaded.val EXCEPT
                   !.all_messages = inner.all_messages,
                   !.spans = ListState_select(loaded.val.spans, inner.spans.selected),
                   !.selected_area = inner.selected_area,
                   !.formatted_message = update_selected_message(loaded.val.messages)])

\* App::reload_messages on the state behind the lock: Err stands for the
\* panic of unwrap() on a failed load, before anything is assigned
reload_messages(inner, file) ==
    LET selected_message_idx == inner.messages.selected
        is_at_bottom ==
            selected_message_idx = Some(saturating_sub(Len(inner.messages.items)))
        loaded == AppInner_new(file)
    IN  IF ~loaded.ok THEN Err
        ELSE LET new_spans ==
                     [ListState_select(loaded.val.spans, inner.spans.selected)
                        EXCEPT !.offset = inner.spans.offset]
                 with_offset ==
                     [loaded.val.messages EXCEPT !.offset = inner.messages.offset]
                 new_messages ==
                     IF is_at_bottom THEN select_last(with_offset)
                     ELSE ListState_select(with_offset, selected_message_idx)
             IN  Ok([loaded.val EXCEPT
                       !.spans = new_spans,
                       !.selected_area = inner.selected_area,
                       !.messages = new_messages,
                       !.formatted_message = update_selected_message(new_messages)])

\* select_area as it would be if the assignment were lost
select_area_ignored(inner, area) == inner

\* App::select_area
select_area(inner, area) == [inner EXCEPT !.selected_area = area]

\* App::jump_to_end
jump_to_end(inner) ==
    LET last == select_last(inner.messages)
    IN  [inner EXCEPT !.messages = last,
                      !.formatted_message = update_selected_message(last)]

\* AppInner::handle_key_up
handle_key_up(inner) ==
    CASE inner.selected_area = "Spans" ->
           LET moved == StatefulList_prev(inner.spans)
           IN  [inner EXCEPT !.spans = moved,
                             !.messages = update_selected_span(moved, inner.all_messages)]
      [] inner.selected_area = "Messages" ->
           LET moved == StatefulList_prev(inner.messages)
           IN  [inner EXCEPT !.messages = moved,
                             !.formatted_message = update_selected_message(moved)]
      [] inner.selected_area = "MessageDetail" ->
           IF inner.formatted_message.some
           THEN [inner EXCEPT !.formatted_message.val =
                                  SelectedLogMessage_prev(inner.formatted_message.val)]
           ELSE inner

\* AppInner::handle_key_down
handle_key_down(inner) ==
    CASE inner.selected_area = "Spans" ->
           LET moved == StatefulList_next(inner.spans)
           IN  [inner EXCEPT !.spans = moved,
                             !.messages = update_selected_span(moved, inner.all_messages)]
      [] inner.selected_area = "Messages" ->
           LET moved == StatefulList_next(inner.messages)
           IN  [inner EXCEPT !.messages = moved,
                             !.formatted_message = update_selected_message(moved)]
      [] inner.selected_area = "MessageDetail" ->
           IF inner.formatted_message.some
           THEN [inner EXCEPT !.formatted_message.val =
                                  SelectedLogMessage_next(inner.formatted_message.val)]
           ELSE inner

\* App::copy_selected_message_to_clipboard: the text handed to the clipboard,
\* if any
copy_selected_message_to_clipboard(inner) ==
    LET m == selected_item(inner.messages)
    IN  IF ~m.some THEN None
        ELSE LET xml == pretty_printed_xml(m.val)
             IN  IF xml.ok THEN Some(xml.val) ELSE None

\* draw_ui: render_spans_list and render_messages_list hand the list states
\* to the list widget, which moves their offsets
draw_ui(inner, spans_height, messages_height) ==
    [inner EXCEPT !.spans.offset = render_offset(inner.spans, spans_height),
                  !.messages.offset = render_offset(inner.messages, messages_height)]

(* ------------------------------ state ---------------------------------- *)

VARIABLES
    inner,   \* the AppInner behind App's mutex
    pc,      \* where run_app is: "draw", "select", "done", "failed", "panicked"
    op,      \* the operation run_app performed last
    old      \* what the last reload found before it replaced the state

vars == <<inner, pc, op, old>>

AppAreas == {"Spans", "Messages", "MessageDetail"}

NoOld == [selected |-> None, len |-> 0, offset |-> 0,
          span_selected |-> None, span |-> None]

\* the part of the state a reload captures or replaces by position
Captured(i) ==
    [selected |-> i.messages.selected,
     len |-> Len(i.messages.items),
     offset |-> i.messages.offset,
     span_selected |-> i.spans.selected,
     span |-> selected_item(i.spans)]

\* browse_log_file: App::new succeeded, run_app is about to draw the first
\* frame
Init ==
    /\ \E file \in Files :
         /\ AppInner_new(file).ok
         /\ inner = AppInner_new(file).val
    /\ pc = "draw"
    /\ op = "new"
    /\ old = NoOld

(* ------------------------------ run_app -------------------------------- *)

\* terminal.draw(|f| draw_ui(f, &app))?
Draw ==
    /\ pc = "draw"
    /\ \E messages_height \in 0..MaxHeight, spans_height \in 0..MaxHeight :
         /\ spans_height <= messages_height
         /\ inner' = draw_ui(inner, spans_height, messages_height)
    /\ pc' = "select"
    /\ op' = "draw"
    /\ old' = NoOld

\* terminal.draw fails, before or after the frame was rendered, and `?`
\* returns the error from run_app
DrawFails ==
    /\ pc = "draw"
    /\ \E messages_height \in 0..MaxHeight, spans_height \in 0..MaxHeight :
         /\ spans_height <= messages_height
         /\ inner' \in {inner, draw_ui(inner, spans_height, messages_height)}
    /\ pc' = "failed"
    /\ op' = "draw"
    /\ old' = NoOld

\* the pane each focus key stands for in run_app's match
area_of_key(code) ==
    CASE code = "s" -> "Spans"
      [] code = "a" -> "Messages"
      [] code = "m" -> "MessageDetail"

\* KeyCode::Char('s' | 'a' | 'm'); op is the key
SelectAreaKey(code) ==
    /\ pc = "select"
    /\ inner' = select_area(inner, area_of_key(code))
    /\ pc' = "draw"
    /\ op' = code
    /\ old' = NoOld

KeySelectArea == \E code \in {"s", "a", "m"} : SelectAreaKey(code)

\* KeyCode::Char('c'): nothing to copy, or the clipboard takes the text, or
\* one of the two unwrap() on the clipboard panics
KeyCopy ==
    /\ pc = "select"
    /\ \E clipboard_ok \in BOOLEAN :
         pc' = IF copy_selected_message_to_clipboard(inner).some /\ ~clipboard_ok
               THEN "panicked" ELSE "draw"
    /\ op' = "copy"
    /\ old' = NoOld
    /\ UNCHANGED inner

\* app.reload_messages() when the file holds one of the given contents
ReloadFrom(files) ==
    /\ pc = "select"
    /\ \E file \in files :
         LET reloaded == reload_messages(inner, file)
         IN  IF reloaded.ok
             THEN /\ inner' = reloaded.val
                  /\ pc' = "draw"
                  /\ op' = "reload_ok"
             ELSE /\ inner' = inner
                  /\ pc' = "panicked"
                  /\ op' = "reload_err"
    /\ old' = Captured(inner)

\* app.reload_messages(), from KeyCode::Char('r') or from notify_rx
Reload(trigger) == ReloadFrom(Files)

KeyReload == Reload("key")

FileChanged == Reload("notify")

\* KeyCode::Char('e')
KeyJumpToEnd ==
    /\ pc = "select"
    /\ inner' = jump_to_end(inner)
    /\ pc' = "draw"
    /\ op' = "jump_to_end"
    /\ old' = NoOld

\* KeyCode::Up
KeyUp ==
    /\ pc = "select"
    /\ inner' = handle_key_up(inner)
    /\ pc' = "draw"
    /\ op' = "key_up"
    /\ old' = NoOld

\* KeyCode::Down; the scroll offset is followed up to MaxScroll
KeyDown ==
    /\ pc = "select"
    /\ ~(/\ inner.selected_area = "MessageDetail"
         /\ inner.formatted_message.some
         /\ inner.formatted_message.val.vertical_position >= MaxScroll)
    /\ inner' = handle_key_down(inner)
    /\ pc' = "draw"
    /\ op' = "key_down"
    /\ old' = NoOld

\* KeyCode::Esc
KeyEsc ==
    /\ pc = "select"
    /\ pc' = "done"
    /\ op' = "quit"
    /\ old' = NoOld
    /\ UNCHANGED inner

\* any other key, and any event that is not a key press
OtherEvent ==
    /\ pc = "select"
    /\ pc' = "draw"
    /\ op' = "ignored"
    /\ old' = NoOld
    /\ UNCHANGED inner

(* --------------------- run_app: channels and tasks ---------------------- *)

\* the events handed to the loop over one run; with MaxScroll + 1 events at
\* most, no Down reaches the scroll bound of KeyDown
MaxEvents == 2

\* mpsc::channel(1), for both channels
ChannelCapacity == 1

VARIABLES
    es_ch,      \* the key event channel (es_tx -> es_rx): events with their stamp
    notify_ch,  \* the file change channel (notify_tx -> notify_rx)
    listener,   \* the spawned key listener task
    watcher,    \* the PollWatcher callback
    arrived,    \* how many events were put into a channel so far
    handled     \* the events the loop received, in the order it received them

loop_vars == <<es_ch, notify_ch, listener, watcher, arrived, handled>>

VARIABLES
    lock,       \* App's Mutex<AppInner>: "free" or "held"
    running     \* the operation run_app is in and the lock steps it has left

lock_vars == <<lock, running>>

all_vars == <<inner, pc, op, old, es_ch, notify_ch, listener, watcher, arrived, handled,
              lock, running>>

\* no operation is running
Idle == [name |-> "idle", steps |-> <<>>]

\* App::new: the mutex is made unlocked
LockInit ==
    /\ lock = "free"
    /\ running = Idle

\* the key codes run_app's match tells apart; "other" is any other event
KeyCodes == {"s", "a", "m", "c", "r", "e", "up", "down", "esc", "other"}

\* run_app before the loop: both channels empty, the listener waits for the
\* terminal, the watcher polls
LoopInit ==
    /\ es_ch = <<>>
    /\ notify_ch = <<>>
    /\ listener = [at |-> "next", code |-> "other"]
    /\ watcher = "poll"
    /\ arrived = 0
    /\ handled = <<>>

\* browse_log_file has made the App and run_app its channels and tasks
Start == Init /\ LoopInit /\ LockInit

\* Sender::send / blocking_send complete only while the channel has room
has_capacity(ch) == Len(ch) < ChannelCapacity

\* Receiver::recv as it would be if it left the event in the channel
recv_peek(ch) == [event |-> Head(ch), rest |-> ch]

\* Receiver::recv on a non-empty channel: the oldest event, taken out
recv(ch) == [event |-> Head(ch), rest |-> Tail(ch)]

\* the contents the log file takes while the channels are followed
LoopFiles ==
    {[readable |-> TRUE, lines |-> l] :
        l \in {<<>>, <<"plain">>, <<"stanza_out">>, <<"garbage">>, <<"plain", "stanza_in">>}}

\* run_app starts on one of these contents
LoopStart ==
    /\ Start
    /\ \E file \in LoopFiles : AppInner_new(file).ok /\ inner = AppInner_new(file).val

\* run_app runs its loop or the first draw
Running == pc \in {"draw", "select"}

\* events that left their source and wait for room in a channel
Held == (IF listener.at = "send" THEN 1 ELSE 0) + (IF watcher = "send" THEN 1 ELSE 0)

Next ==
    \/ Draw /\ UNCHANGED <<loop_vars, lock_vars>>
    \/ DrawFails /\ UNCHANGED <<loop_vars, lock_vars>>
    \/ KeySelectArea /\ UNCHANGED <<loop_vars, lock_vars>>
    \/ KeyCopy /\ UNCHANGED <<loop_vars, lock_vars>>
    \/ KeyReload /\ UNCHANGED <<loop_vars, lock_vars>>
    \/ FileChanged /\ UNCHANGED <<loop_vars, lock_vars>>
    \/ KeyJumpToEnd /\ UNCHANGED <<loop_vars, lock_vars>>
    \/ KeyUp /\ UNCHANGED <<loop_vars, lock_vars>>
    \/ KeyDown /\ UNCHANGED <<loop_vars, lock_vars>>
    \/ KeyEsc /\ UNCHANGED <<loop_vars, lock_vars>>
    \/ OtherEvent /\ UNCHANGED <<loop_vars, lock_vars>>

\* the application with the events as they reach the handlers; the channels
\* stay as run_app made them
Spec == Start /\ [][Next]_all_vars

\* reader.next().await yields Some(Ok(event))
KeyPressed ==
    /\ Running
    /\ listener.at = "next"
    /\ arrived + Held < MaxEvents
    /\ \E code \in KeyCodes : listener' = [at |-> "send", code |-> code]
    /\ UNCHANGED <<inner, pc, op, old, es_ch, notify_ch, watcher, arrived, handled, lock, running>>

\* es_tx.send(event).await completes
ListenerSend ==
    /\ Running
    /\ listener.at = "send"
    /\ has_capacity(es_ch)
    /\ es_ch' = Append(es_ch, [code |-> listener.code, id |-> arrived + 1])
    /\ arrived' = arrived + 1
    /\ listener' = [at |-> "next", code |-> "other"]
    /\ UNCHANGED <<inner, pc, op, old, notify_ch, watcher, handled, lock, running>>

\* reader.next().await yields None or Some(Err(_)): the task ends and drops
\* es_tx
ListenerEnds ==
    /\ Running
    /\ listener.at = "next"
    /\ listener' = [at |-> "ended", code |-> "other"]
    /\ UNCHANGED <<inner, pc, op, old, es_ch, notify_ch, watcher, arrived, handled, lock, running>>

\* the watcher's callback gets an event with event.kind.is_modify()
FileModified ==
    /\ Running
    /\ watcher = "poll"
    /\ arrived + Held < MaxEvents
    /\ watcher' = "send"
    /\ UNCHANGED <<inner, pc, op, old, es_ch, notify_ch, listener, arrived, handled, lock, running>>

\* notify_tx.blocking_send(()) completes
WatcherSend ==
    /\ Running
    /\ watcher = "send"
    /\ has_capacity(notify_ch)
    /\ notify_ch' = Append(notify_ch, [code |-> "notify", id |-> arrived + 1])
    /\ arrived' = arrived + 1
    /\ watcher' = "poll"
    /\ UNCHANGED <<inner, pc, op, old, es_ch, listener, handled, lock, running>>

\* run_app's match on the event and its key code
Dispatch(code) ==
    \/ code \in {"s", "a", "m"} /\ SelectAreaKey(code)
    \/ code = "c" /\ KeyCopy
    \/ code = "r" /\ ReloadFrom(LoopFiles)
    \/ code = "e" /\ KeyJumpToEnd
    \/ code = "up" /\ KeyUp
    \/ code = "down" /\ KeyDown
    \/ code = "esc" /\ KeyEsc
    \/ code = "other" /\ OtherEvent

\* select! takes the branch Some(event) = es_rx.recv()
RecvKey ==
    /\ pc = "select"
    /\ es_ch # <<>>
    /\ LET received == recv(es_ch)
       IN  /\ es_ch' = received.rest
           /\ handled' = Append(handled, received.event)
           /\ Dispatch(received.event.code)
    /\ UNCHANGED <<notify_ch, listener, watcher, arrived, lock, running>>

\* select! takes the branch Some(_) = notify_rx.recv()
RecvNotify ==
    /\ pc = "select"
    /\ notify_ch # <<>>
    /\ LET received == recv(notify_ch)
       IN  /\ notify_ch' = received.rest
           /\ handled' = Append(handled, received.event)
    /\ ReloadFrom(LoopFiles)
    /\ UNCHANGED <<es_ch, listener, watcher, arrived, lock, running>>

\* what run_app itself does: a branch of select! or a draw
LoopStep ==
    \/ RecvKey
    \/ RecvNotify
    \/ (Draw \/ DrawFails) /\ UNCHANGED <<loop_vars, lock_vars>>

\* select! has no branch to take while both channels are empty; its else
\* branch needs both channels closed, and notify_tx lives in the watcher,
\* which run_app keeps until it returns
LoopNext ==
    \/ KeyPressed
    \/ ListenerSend
    \/ ListenerEnds
    \/ FileModified
    \/ WatcherSend
    \/ RecvKey
    \/ RecvNotify
    \/ Draw /\ UNCHANGED <<loop_vars, lock_vars>>
    \/ DrawFails /\ UNCHANGED <<loop_vars, lock_vars>>

\* run_app with its tasks: the runtime runs the loop and a pending send when
\* they can go on; nothing obliges the terminal or the file to produce events
LoopSpec ==
    /\ LoopStart
    /\ [][LoopNext]_all_vars
    /\ WF_all_vars(LoopStep)
    /\ WF_all_vars(ListenerSend)
    /\ WF_all_vars(WatcherSend)

(* ------------------------- run_app: the state lock ---------------------- *)

\* the lock steps of an operation as they would be if render_selected_message
\* asked for messages_len() before dropping its guard
lock_steps_nested(name) ==
    CASE name = "draw" ->
           <<"lock", "unlock", "lock", "unlock", "lock", "lock", "unlock", "unlock">>
      [] name \in {"esc", "other"} -> <<>>
      [] OTHER -> <<"lock", "unlock">>

\* self.inner.lock() and the drop of its guard, in the order each operation
\* performs them: draw_ui goes through render_spans_list,
\* render_messages_list, render_selected_message and messages_len, each with
\* a guard of its own; the state operations take one guard; Esc and ignored
\* events take none
lock_steps(name) ==
    CASE name = "draw" ->
           <<"lock", "unlock", "lock", "unlock", "lock", "unlock", "lock", "unlock">>
      [] name \in {"esc", "other"} -> <<>>
      [] OTHER -> <<"lock", "unlock">>

\* run_app enters an operation: the draw it owes, or the handler of the
\* event select! received
LockCall ==
    /\ running = Idle
    /\ \/ pc = "draw" /\ running' = [name |-> "draw", steps |-> lock_steps("draw")]
       \/ /\ pc = "select"
          /\ \E name \in KeyCodes \cup {"notify"} :
               running' = [name |-> name, steps |-> lock_steps(name)]
    /\ UNCHANGED <<inner, pc, op, old, loop_vars, lock>>

\* self.inner.lock(): parking_lot's Mutex is not reentrant, the call goes on
\* only while the lock is free
Acquire ==
    /\ running.steps # <<>>
    /\ Head(running.steps) = "lock"
    /\ lock = "free"
    /\ lock' = "held"
    /\ running' = [running EXCEPT !.steps = Tail(@)]
    /\ UNCHANGED <<inner, pc, op, old, loop_vars>>

\* the guard is dropped: at the end of the statement or function, or by the
\* unwinding of a panic
Release ==
    /\ running.steps # <<>>
    /\ Head(running.steps) = "unlock"
    /\ lock' = "free"
    /\ running' = [running EXCEPT !.steps = Tail(@)]
    /\ UNCHANGED <<inner, pc, op, old, loop_vars>>

\* what the operation did to the application, seen when it is over
Effect(name) ==
    \/ name = "draw" /\ (Draw \/ DrawFails)
    \/ name = "notify" /\ ReloadFrom(LoopFiles)
    \/ name \in KeyCodes /\ Dispatch(name)

\* the operation is over: it returns to run_app, or its panic leaves run_app
Return ==
    /\ running # Idle
    /\ running.steps = <<>>
    /\ Effect(running.name)
    /\ running' = Idle
    /\ UNCHANGED <<loop_vars, lock>>

LockNext ==
    \/ LockCall
    \/ Acquire
    \/ Release
    \/ Return

\* run_app's operations with their lock steps; only run_app's task has the
\* App, the listener and the watcher never take the lock
LockSpec == LoopStart /\ [][LockNext]_all_vars

(* ------------------------------ claims --------------------------------- *)

\* a selection is an index of the list, and an empty list has none
InRange(list) ==
    IF list.items = <<>> THEN ~list.selected.some
    ELSE list.selected.some => list.selected.val < Len(list.items)

\* C1: in every reachable state the selection of each of the three lists
\* (all records, visible records, span index), if present, is smaller than
\* the list's length, and an empty list has no selection.
C1_SelectionInRange ==
    /\ InRange(inner.all_messages)
    /\ InRange(inner.messages)
    /\ InRange(inner.spans)

\* the reload found the selection on the last index of the visible list (the
\* last index of an empty list counted as 0, as the reload counts it)
WasFollowingTail ==
    old.selected = Some(IF old.len = 0 THEN 0 ELSE old.len - 1)

\* C2: after a reload whose load succeeded, a selection that was on the last
\* index of the old visible list is on the last index of a longer new list,
\* and a selection that was not on the last index is the same index in a new
\* list that is at least as long.
C2_TailFollow ==
    op = "reload_ok" =>
        LET n == Len(inner.messages.items)
        IN  /\ (WasFollowingTail /\ n > old.len =>
                    inner.messages.selected = Some(n - 1))
            /\ (~WasFollowingTail /\ n >= old.len =>
                    inner.messages.selected = old.selected)

\* C2 witness: a reload found the selection on the last record of a
\* non-empty list and the list grew
C2_Witness ==
    /\ op = "reload_ok"
    /\ old.len >= 1
    /\ old.selected = Some(old.len - 1)
    /\ Len(inner.messages.items) > old.len
    /\ inner.messages.selected = Some(Len(inner.messages.items) - 1)

\* C3: when a reload finds the selection not following the tail, the old
\* index is restored clamped to the new visible list: a valid index of the
\* new list, or no selection if the new list is empty.
C3_RestoredIndexClamped ==
    (op = "reload_ok" /\ ~WasFollowingTail /\ old.selected.some) =>
        LET n == Len(inner.messages.items)
        IN  inner.messages.selected =
                IF n = 0 THEN None ELSE Some(Min(old.selected.val, n - 1))

\* C4: a reload whose load fails is aborted: the application goes on to the
\* redraw with the state it had before the reload.
C4_FailedReloadKeepsState ==
    [][op' = "reload_err" => (inner' = inner /\ pc' = "draw")]_vars

\* C5: no error raised while handling an event ends the event loop: the loop
\* is running unless the quit command ended it.
C5_LoopSurvivesErrors ==
    \/ pc \in {"draw", "select"}
    \/ pc = "done" /\ op = "quit"

\* the record carries the span name in its span set
Tagged(m, tag) ==
    m.spans.some /\ tag \in {m.spans.val[j] : j \in DOMAIN m.spans.val}

\* visible is the subsequence of all, in order, of exactly the records
\* tagged with tag
ExactlyTagged(visible, all, tag) ==
    LET idx == {k \in 1..Len(all) : Tagged(all[k], tag)}
        nth(i) == CHOOSE k \in idx : Cardinality({j \in idx : j < k}) = i - 1
    IN  /\ Len(visible) = Cardinality(idx)
        /\ \A i \in 1..Len(visible) : visible[i] = all[nth(i)]

\* the visible list is what the span filter yields for the selected span
VisibleIsFiltered ==
    IF inner.spans.selected = Some(0)
    THEN inner.messages.items = inner.all_messages.items
    ELSE selected_item(inner.spans).some =>
             ExactlyTagged(inner.messages.items, inner.all_messages.items,
                           selected_item(inner.spans).val)

\* C6: after a successful reload the visible list is the span filter applied
\* to the new records with the restored span selection.
C6_ReloadAppliesSpanFilter ==
    op = "reload_ok" => VisibleIsFiltered

\* C7: a reload restores the span selection by value: the span selected
\* before is selected afterwards if the new span index has it, otherwise the
\* selection is AllSpans at index 0.
C7_SpanRestoredByValue ==
    op = "reload_ok" =>
        IF old.span.some /\ \E k \in 1..Len(inner.spans.items) :
                                inner.spans.items[k] = old.span.val
        THEN selected_item(inner.spans) = Some(old.span.val)
        ELSE inner.spans.selected = Some(0)

\* the last event moved the span selection and ran the span filter
SpanFilterRan ==
    op \in {"key_up", "key_down"} /\ inner.selected_area = "Spans"

\* C8: the span filter yields every record for AllSpans, and for a span name
\* the records whose span set has it, in their order; records without a span
\* set are left out.
C8_SpanFilter ==
    SpanFilterRan => VisibleIsFiltered

\* C8 witness: the filter ran for a span name, kept one record and left out
\* one that has no span set
C8_Witness ==
    /\ SpanFilterRan
    /\ inner.spans.selected # Some(0)
    /\ selected_item(inner.spans).some
    /\ inner.messages.items # <<>>
    /\ \E k \in 1..Len(inner.all_messages.items) :
         ~inner.all_messages.items[k].spans.some

\* the last event is one that may have changed which record is selected
SelectionEvent ==
    \/ op \in {"new", "jump_to_end", "reload_ok"}
    \/ op \in {"key_up", "key_down"} /\ inner.selected_area \in {"Spans", "Messages"}

\* C9: after every event that may change the selected record the detail view
\* is the rendering of the selected record at scroll offset zero, and it is
\* absent only when no record is selected.
C9_DetailMatchesSelection ==
    SelectionEvent =>
        LET m == selected_item(inner.messages)
        IN  /\ inner.formatted_message.some <=> m.some
            /\ (m.some /\ highlighted_stanza_xml_text(m.val).ok) =>
                   inner.formatted_message.val =
                       SelectedLogMessage(highlighted_stanza_xml_text(m.val).val)

\* the last event recomputed the detail view
DetailRecomputed ==
    \/ op \in {"jump_to_end", "reload_ok"}
    \/ op \in {"key_up", "key_down"} /\ inner.selected_area = "Messages"

\* C10: when the selected record has a direction and a body that cannot be
\* re-serialised, the detail view shows the record's raw body.
C10_FormatErrorShowsRawBody ==
    LET m == selected_item(inner.messages)
    IN  (/\ DetailRecomputed
         /\ m.some
         /\ m.val.direction # "None"
         /\ ~to_writer_pretty(m.val.message).ok) =>
            /\ inner.formatted_message.some
            /\ inner.formatted_message.val.message.text = m.val.message

\* next() applied n times
RECURSIVE NextTimes(_, _)
NextTimes(list, n) ==
    IF n = 0 THEN list ELSE NextTimes(StatefulList_next(list), n - 1)

\* on a non-empty list with its selection in range, next() at the last index
\* selects 0, prev() at 0 selects the last index, and length times next()
\* comes back to the selection
Circular(list) ==
    (list.items # <<>> /\ list.selected.some /\ list.selected.val < Len(list.items)) =>
        LET n == Len(list.items)
        IN  /\ list.selected.val = n - 1 => StatefulList_next(list).selected = Some(0)
            /\ list.selected.val = 0 => StatefulList_prev(list).selected = Some(n - 1)
            /\ NextTimes(list, n).selected = list.selected

\* C11: navigation is circular on each list the application reaches: next()
\* at the last index selects index 0, prev() at index 0 selects the last
\* index, and next() applied length times returns to the selection.
C11_CircularNavigation ==
    /\ Circular(inner.messages)
    /\ Circular(inner.spans)
    /\ Circular(inner.all_messages)

\* C11 witness: Down in the messages pane wrapped from the last of two
\* records to the first
C11_Witness ==
    /\ op = "key_down"
    /\ inner.selected_area = "Messages"
    /\ Len(inner.messages.items) = 2
    /\ inner.messages.selected = Some(0)

\* C12: every event the loop processes other than quit is followed by a
\* redraw, the redraw leads back to waiting for the next event, and quit
\* stops the loop with no redraw after it.
C12_OneRedrawPerEvent ==
    [][/\ pc = "select" => \/ op' = "quit" /\ pc' = "done"
                           \/ op' # "quit" /\ pc' = "draw"
       /\ (pc = "draw" /\ pc' # "failed") => pc' = "select"
       /\ pc # "done"]_vars

\* the visible list is made of the records of the record list: all of them,
\* those of one span, or none
VisibleFromRecords ==
    \/ inner.messages.items = inner.all_messages.items
    \/ inner.messages.items = <<>>
    \/ \E tag \in span_names(inner.all_messages.items) :
         ExactlyTagged(inner.messages.items, inner.all_messages.items, tag)

\* C16: a reload replaces the state as a whole: whenever a render or an
\* event can look at the state, the span index and the visible list belong to
\* the same load as the record list, never to a mixture of two loads.
C16_ReloadAtomic ==
    /\ inner.spans.items = <<AllSpans>> \o SortedSeq(span_names(inner.all_messages.items))
    /\ inner.all_messages = with_items(inner.all_messages.items)
    /\ VisibleFromRecords

\* C16 witness: a reload replaced a span index that had the selected span by
\* one that does not have it
C16_Witness ==
    /\ op = "reload_ok"
    /\ old.span.some
    /\ old.span.val # AllSpans
    /\ \A k \in 1..Len(inner.spans.items) : inner.spans.items[k] # old.span.val

\* C17: the focus area is one of the three panes, starts as Messages, a focus
\* key sets it to the pane of that key, and nothing else changes it.
C17_FocusOnlyByCommand ==
    /\ inner.selected_area = "Messages"
    /\ [](inner.selected_area \in {"Spans", "Messages", "MessageDetail"})
    /\ [][/\ op' = "s" => inner'.selected_area = "Spans"
          /\ op' = "a" => inner'.selected_area = "Messages"
          /\ op' = "m" => inner'.selected_area = "MessageDetail"
          /\ op' \notin {"s", "a", "m"} => inner'.selected_area = inner.selected_area]_vars

\* C17 witness: the focus key of the spans pane was handled and the focus
\* is on the spans pane
C17_Witness ==
    /\ op = "s"
    /\ inner.selected_area = "Spans"

\* C18: when the span filter runs for a span index beyond the span list, the
\* visible list is empty and no message is selected.
C18_OutOfRangeSpanEmptiesList ==
    (/\ SpanFilterRan
     /\ inner.spans.selected.some
     /\ inner.spans.selected.val >= Len(inner.spans.items)) =>
        /\ inner.messages.items = <<>>
        /\ inner.messages.selected = None

\* C18 witness: the filter ran for an index beyond the span list while there
\* are records
C18_Witness ==
    /\ SpanFilterRan
    /\ inner.spans.selected.some
    /\ inner.spans.selected.val >= Len(inner.spans.items)
    /\ inner.all_messages.items # <<>>

\* C19: with the focus on the detail pane Up and Down change the scroll
\* offset only, Down by +1 and Up by -1 but not below zero; without a detail
\* view they change nothing.
C19_DetailPaneScrollsOnly ==
    [][(/\ pc = "select"
        /\ op' \in {"key_up", "key_down"}
        /\ inner.selected_area = "MessageDetail") =>
           IF inner.formatted_message.some
           THEN LET at == inner.formatted_message.val.vertical_position
                    to == IF op' = "key_down" THEN at + 1
                          ELSE IF at = 0 THEN 0 ELSE at - 1
                IN  inner' = [inner EXCEPT !.formatted_message.val.vertical_position = to]
           ELSE inner' = inner]_vars

\* C19 witness: Up was handled in the detail pane and the offset is zero
C19_Witness ==
    /\ op = "key_up"
    /\ inner.selected_area = "MessageDetail"
    /\ inner.formatted_message.some
    /\ inner.formatted_message.val.vertical_position = 0

\* the selection of a non-empty list with its selection in range, moved by
\* one step in the direction of the key, around the ends
Moved(list, key) ==
    LET n == Len(list.items)
    IN  Some(IF key = "key_down" THEN (list.selected.val + 1) % n
             ELSE (list.selected.val + n - 1) % n)

Navigable(list) ==
    list.items # <<>> /\ list.selected.some /\ list.selected.val < Len(list.items)

\* C20: Up and Down in the spans pane move the span selection circularly and
\* leave the visible list equal to the filter result of the new span; in the
\* messages pane they move the message selection circularly and leave the
\* span selection and the records of the visible list as they are.
C20_UpDownByPane ==
    [][(pc = "select" /\ op' \in {"key_up", "key_down"}) =>
          /\ inner.selected_area = "Spans" =>
                /\ Navigable(inner.spans) =>
                       inner'.spans.selected = Moved(inner.spans, op')
                /\ inner'.spans.items = inner.spans.items
                /\ VisibleIsFiltered'
          /\ inner.selected_area = "Messages" =>
                /\ Navigable(inner.messages) =>
                       inner'.messages.selected = Moved(inner.messages, op')
                /\ inner'.messages.items = inner.messages.items
                /\ inner'.spans = inner.spans]_vars

\* C20 witness: Up in the spans pane wrapped to the last span and the filter
\* left some record out
C20_Witness ==
    /\ op = "key_up"
    /\ inner.selected_area = "Spans"
    /\ Len(inner.spans.items) >= 2
    /\ inner.spans.selected = Some(Len(inner.spans.items) - 1)
    /\ inner.messages.items # inner.all_messages.items

\* the events waiting in the two channels
Waiting == {es_ch[k] : k \in 1..Len(es_ch)} \cup {notify_ch[k] : k \in 1..Len(notify_ch)}

\* two events came over the same channel
SameChannel(e, f) == (e.code = "notify") <=> (f.code = "notify")

\* C13 as stated: events are handled strictly in arrival order, whichever
\* channel they came over, none skipped and none merged: while the loop
\* runs, the k-th event handled is the k-th event that arrived.
C13_ArrivalOrder ==
    Running => \A k \in 1..Len(handled) : handled[k].id = k

\* C13 amended: events of the same channel are handled in the order they
\* arrived, each exactly once, and every event that arrived is either handled
\* or still waiting in its channel; two events waiting in different channels
\* may be handled in either order.
C13_OrderPerChannel ==
    /\ \A j, k \in 1..Len(handled) :
         (j < k /\ SameChannel(handled[j], handled[k])) => handled[j].id < handled[k].id
    /\ \A k \in 1..Len(handled) : \A e \in Waiting :
         SameChannel(handled[k], e) => handled[k].id < e.id
    /\ {handled[k].id : k \in 1..Len(handled)} \cup {e.id : e \in Waiting} = 1..arrived

\* C13 witness: two key events were handled, the one that arrived first
\* before the other
C13_Witness ==
    /\ Len(handled) = 2
    /\ handled[1].code # "notify"
    /\ handled[2].code # "notify"
    /\ handled[1].id < handled[2].id

\* C14: no event is dropped: when the loop has stopped on the quit command,
\* no event that arrived before the quit command is left in a channel.
C14_NoEventDropped ==
    pc = "done" =>
        \A e \in Waiting : e.id > handled[Len(handled)].id

\* C15: once the key listener has ended, the loop eventually stops instead of
\* waiting forever.
C15_StopsWhenListenerEnded ==
    (listener.at = "ended") ~> (pc \notin {"draw", "select"})

\* C21: after a successful reload the scroll offset of the detail view is
\* zero and the scroll offset of the visible list is the one it had before
\* the reload.
C21_ReloadOffsets ==
    op = "reload_ok" =>
        /\ inner.formatted_message.some =>
               inner.formatted_message.val.vertical_position = 0
        /\ inner.messages.offset = old.offset

\* C21 witness: a reload kept a visible list offset above zero while the
\* list shrank, and built a detail view
C21_Witness ==
    /\ op = "reload_ok"
    /\ old.offset > 0
    /\ inner.messages.offset = old.offset
    /\ Len(inner.messages.items) < old.len
    /\ inner.formatted_message.some

\* C23: in every reachable state a non-empty visible list has a selected
\* message.
C23_NonEmptyHasSelection ==
    inner.messages.items # <<>> => inner.messages.selected.some

\* the selection with_items gives a list of these items
InitialSelection(items) == IF items = <<>> THEN None ELSE Some(0)

\* C24: every Up or Down handled in the spans pane leaves the message
\* selection at the first record of the rebuilt visible list, or at none if
\* that list is empty; the selection of the all-records list is always the
\* one it was built with.
C24_SpanMoveResetsMessageSelection ==
    /\ [](inner.all_messages.selected = InitialSelection(inner.all_messages.items))
    /\ [][(/\ pc = "select"
           /\ op' \in {"key_up", "key_down"}
           /\ inner.selected_area = "Spans") =>
              inner'.messages.selected = InitialSelection(inner'.messages.items)]_vars

\* C24 witness: Up or Down in the spans pane of a one-entry span list came
\* back to the same entry and the first of two records is selected
C24_Witness ==
    /\ op \in {"key_up", "key_down"}
    /\ inner.selected_area = "Spans"
    /\ Len(inner.spans.items) = 1
    /\ inner.spans.selected = Some(0)
    /\ Len(inner.messages.items) = 2
    /\ inner.messages.selected = Some(0)

\* a selection that names no item of the list
Stale(list) ==
    \/ list.items = <<>>
    \/ ~list.selected.some
    \/ list.selected.val >= Len(list.items)

\* selected_item gives None for a stale selection and the item at the index
\* otherwise
ReadsInBounds(list) ==
    IF Stale(list) THEN selected_item(list) = None
    ELSE selected_item(list) = Some(list.items[list.selected.val + 1])

\* C25: in every reachable state selected_item of each list gives None when
\* the list is empty or the selection is missing or beyond the list, and the
\* item at the index otherwise, so no read goes beyond the items.
C25_SelectedItemInBounds ==
    /\ ReadsInBounds(inner.messages)
    /\ ReadsInBounds(inner.spans)
    /\ ReadsInBounds(inner.all_messages)

\* C25 witness: copy ran and returned on a visible list whose selection is
\* beyond the list
C25_Witness ==
    /\ op = "copy"
    /\ pc = "draw"
    /\ inner.messages.selected.some
    /\ inner.messages.selected.val >= Len(inner.messages.items)

\* C22: every operation holds the state lock for itself only: the lock is
\* free whenever no operation is running, in particular while the loop waits
\* for the next event; an operation that is about to lock finds the lock
\* free, so none blocks on a lock it holds; and an operation has dropped its
\* guard when it is over.
C22_LockPerOperation ==
    /\ running = Idle => lock = "free"
    /\ running.steps # <<>> =>
           IF Head(running.steps) = "lock" THEN lock = "free" ELSE lock = "held"
    /\ (running # Idle /\ running.steps = <<>>) => lock = "free"

\* C22 witness: a draw holds the lock for the last of its four readings of
\* the state
C22_Witness ==
    /\ running.name = "draw"
    /\ lock = "held"
    /\ Len(running.steps) = 1

====
